---- MODULE Spec2Model ----
\* Clinical AMR Surveillance Dashboard (src/app.py): the validation, encoding,
\* reshaping, filtering and aggregation pipeline of one script run, as a state
\* machine.  One action per stage of the script, in script order.
\*
\* Representation.
\*   - A string is the sequence of its character codes ("SNO" is <<83, 78, 79>>),
\*     so that str.strip / str.upper / str.replace, dictionary lookups by string
\*     and str.join are computed, not assumed.
\*   - A missing cell (pandas NaN) is the value NaN below, which is no string.
\*   - A resistance score is kept in tenths: 0.0, 0.5, 1.0 are 0, 5, 10; a missing
\*     score is NaNScore.
\*   - A wide table is a header (sequence of column names) and a sequence of rows
\*     [idx |-> row label, v |-> cells in header order].
\*   - A mean or a percentage is kept as its numerator and denominator.
EXTENDS Integers, Sequences, FiniteSets, Bags, TLC

\* ---------------------------------------------------------------- bounds
\* Largest number of isolates (rows) of an enumerated input table.
MaxRows == 2

\* --------------------------------------------------------------- strings
str_SNO == <<83, 78, 79>>
str_SAMPLE_TYPE == <<83, 65, 77, 80, 76, 69, 95, 84, 89, 80, 69>>
str_GENDER == <<71, 69, 78, 68, 69, 82>>
str_ESBL == <<69, 83, 66, 76>>
str_MDR == <<77, 68, 82>>
str_MAR_INDEX == <<77, 65, 82, 95, 73, 78, 68, 69, 88>>
str_YES == <<89, 69, 83>>
str_NO == <<78, 79>>
str_AMX == <<65, 77, 88>>
str_CIP == <<67, 73, 80>>
str_S == <<83>>
str_I == <<73>>
str_R == <<82>>

\* A missing cell: pandas NaN.  No string equals it (no character code is negative).
NaN == <<-1>>
\* A missing score (float NaN) in a score column.
NaNScore == -1
\* A missing label in RESISTANCE_LABEL.
NaNLabel == "nan"

\* ------------------------------------------------------- string functions
\* str.upper on one character code.
UpperChar(c) == IF c >= 97 /\ c <= 122 THEN c - 32 ELSE c

\* str.upper
Upper(s) == [i \in 1..Len(s) |-> UpperChar(s[i])]

\* Whitespace as str.strip understands it.
IsSpace(c) == c \in {9, 10, 11, 12, 13, 32}

RECURSIVE LStrip(_)
LStrip(s) == IF s # <<>> /\ IsSpace(Head(s)) THEN LStrip(Tail(s)) ELSE s

RECURSIVE RStrip(_)
RStrip(s) ==
  IF s # <<>> /\ IsSpace(s[Len(s)]) THEN RStrip(SubSeq(s, 1, Len(s) - 1)) ELSE s

\* str.strip
Strip(s) == LStrip(RStrip(s))

\* str.replace(" ", "_").replace("/", "_")
ReplaceSep(s) == [i \in 1..Len(s) |-> IF s[i] \in {32, 47} THEN 95 ELSE s[i]]

\* One column name through df.columns.str.strip().str.upper().str.replace(...)
NormalizeName(s) == ReplaceSep(Upper(Strip(s)))

\* Series.astype(str).str.upper() on one cell; a missing cell has been dropped
\* or, in the metadata columns, becomes the string "NAN".
AsUpperStr(c) == IF c = NaN THEN <<78, 65, 78>> ELSE Upper(c)

\* ------------------------------------------------------ sequence helpers
Range(s) == {s[i] : i \in 1..Len(s)}

IsIn(x, s) == \E i \in 1..Len(s) : s[i] = x

\* The concatenation of the sequences of a sequence.
RECURSIVE Concat(_)
Concat(ss) == IF ss = <<>> THEN <<>> ELSE Head(ss) \o Concat(Tail(ss))

\* The elements of s at the positions K, in order.
Pick(s, K) ==
  LET RECURSIVE Go(_)
      Go(i) == IF i > Len(s) THEN <<>>
               ELSE IF i \in K THEN <<s[i]>> \o Go(i + 1)
               ELSE Go(i + 1)
  IN Go(1)

\* The bag of the elements of a sequence.
RECURSIVE SeqBag(_)
SeqBag(s) == IF s = <<>> THEN EmptyBag ELSE SetToBag({Head(s)}) (+) SeqBag(Tail(s))

\* ----------------------------------------------------------------- state
VARIABLES
  raw,              \* the table read from the uploaded file; never changed
  pc,               \* the stage of the script that runs next
  columns,          \* df.columns
  df,               \* the wide table
  antibiotic_cols,  \* the antibiotic column names, in header order
  error,            \* what st.error displayed before st.stop
  df_encoded,       \* the encoded wide table
  df_long,          \* the long table
  gender_filter,    \* the selection of the Gender multiselect
  sample_filter,    \* the selection of the Sample Type multiselect
  overview,         \* tab 1 and tab 9 scalars, as counts
  summary,          \* tab 2: resistance distribution
  top_profiles,     \* tab 6: MDR profiles
  esbl_summary,     \* tab 7
  mdr_drivers,      \* tab 8
  top_abx,          \* tab 9: the antibiotics of highest resistant count
  shown             \* the outputs rendered on the page or offered for download

vars == <<raw, pc, columns, df, antibiotic_cols, error, df_encoded, df_long,
          gender_filter, sample_filter, overview, summary, top_profiles,
          esbl_summary, mdr_drivers, top_abx, shown>>

\* ------------------------------------------------------- column access
required_cols ==
  <<str_SNO, str_SAMPLE_TYPE, str_GENDER, str_ESBL, str_MDR, str_MAR_INDEX>>

\* The position of column name c in header cols (the first, as the header of
\* every input has distinct normalized names).
ColPos(cols, c) == CHOOSE i \in 1..Len(cols) : cols[i] = c

\* row[c]
Cell(cols, row, c) == row.v[ColPos(cols, c)]

\* df[c], as the sequence of its cells.
Column(cols, rows, c) == [i \in 1..Len(rows) |-> Cell(cols, rows[i], c)]

\* ---------------------------------------------------------------- inputs
\* The uploaded files the model enumerates.  A file is [columns |-> header,
\* rows |-> sequence of cell sequences in header order].
raw_sno == <<32, 115, 110, 111>>
raw_sample_type == <<83, 97, 109, 112, 108, 101, 32, 84, 121, 112, 101>>
raw_gender == <<103, 101, 110, 100, 101, 114, 32>>
raw_mdr == <<77, 100, 114>>
raw_mar_index == <<77, 65, 82, 47, 73, 110, 100, 101, 120>>
raw_amx == <<97, 109, 120>>
raw_cip == <<67, 105, 112>>
str_yes == <<121, 101, 115>>
str_s == <<115>>
str_X == <<88>>
str_q == <<113>>
str_f == <<102>>
str_M == <<77>>
str_Urine == <<85, 114, 105, 110, 101>>
str_Blood == <<66, 108, 111, 111, 100>>

\* " sno", "Sample Type", "gender ", "ESBL", "Mdr", "MAR/Index", "amx", "Cip"
RawHeader ==
  <<raw_sno, raw_sample_type, raw_gender, str_ESBL, raw_mdr, raw_mar_index,
    raw_amx, raw_cip>>

\* A header already in canonical form, the antibiotics not in alphabetical order.
CanonHeader == required_cols \o <<str_CIP, str_AMX>>

\* The i-th isolate of the sample sheet, in the order of RawHeader.
SampleRow(i) ==
  <<i,
    IF i % 2 = 1 THEN str_Urine ELSE str_Blood,
    IF i % 2 = 1 THEN str_f ELSE str_M,
    IF i % 2 = 1 THEN str_yes ELSE str_NO,
    IF i % 3 = 0 THEN str_NO ELSE str_YES,
    IF i % 2 = 1 THEN 30 ELSE 10,
    <<str_R, str_S, str_I>>[(i % 3) + 1],
    <<str_S, NaN, str_R>>[(i % 3) + 1]>>

\* The i-th isolate of a sheet whose isolates differ in nothing but SNO.
PlainRow(i) == [SampleRow(1) EXCEPT ![1] = i]

RowCounts == 1..MaxRows

\* Headers: any subset of the sample sheet's columns, over its first rows.
HeaderInput ==
  \E K \in SUBSET (1..Len(RawHeader)), n \in 0..MaxRows :
    raw = [columns |-> Pick(RawHeader, K),
           rows |-> [i \in 1..n |-> Pick(SampleRow(i), K)]]

\* Cell values: canonical header, every antibiotic cell drawn from valid,
\* lower-case, invalid and missing values.
CellInput ==
  \E n \in RowCounts :
    \E f \in [1..n -> {str_R, str_s, str_X, str_q, NaN} \X
                      {str_R, str_s, str_X, str_q, NaN}] :
      raw = [columns |-> CanonHeader,
             rows |-> [i \in 1..n |->
                         [PlainRow(i) EXCEPT ![7] = f[i][1], ![8] = f[i][2]]]]

\* The MDR flag and valid cells, for the aggregates.
FlagInput ==
  \E n \in RowCounts :
    \E f \in [1..n -> {str_yes, str_NO} \X {str_R, str_S, NaN} \X {str_R, NaN}] :
      raw = [columns |-> CanonHeader,
             rows |-> [i \in 1..n |->
                         [PlainRow(i) EXCEPT ![5] = f[i][1], ![7] = f[i][2],
                                             ![8] = f[i][3]]]]

\* Identifiers (possibly repeated), genders and sample types, for the filters.
FilterInput ==
  \E n \in RowCounts :
    \E f \in [1..n -> {1, 2} \X {str_Urine, str_Blood} \X {str_f, str_M}] :
      raw = [columns |-> CanonHeader,
             rows |-> [i \in 1..n |->
                         [SampleRow(i) EXCEPT ![1] = f[i][1], ![2] = f[i][2],
                                              ![3] = f[i][3]]]]

\* One sheet of four antibiotics and more distinct MDR profiles than the
\* profile table keeps: profile k is held by ProfileSizes[k] isolates, and two
\* isolates that are not MDR hold a further profile.
str_GEN == <<71, 69, 78>>
str_TET == <<84, 69, 84>>

ProfileHeader == required_cols \o <<str_TET, str_AMX, str_GEN, str_CIP>>

ProfileSizes == <<1, 1, 1, 2, 2, 2, 3, 3, 3, 4, 4>>

ProfileBit(k, j) ==
  IF j = 1 THEN k % 2
  ELSE IF j = 2 THEN (k \div 2) % 2
  ELSE IF j = 3 THEN (k \div 4) % 2
  ELSE (k \div 8) % 2

ProfileRow(k, mdr) ==
  <<0, str_Urine, str_f, str_NO, mdr, 30>> \o
  [j \in 1..4 |-> IF ProfileBit(k, j) = 1 THEN str_R ELSE str_S]

ProfileInput ==
  LET rows == Concat([k \in 1..Len(ProfileSizes) |->
                        [j \in 1..ProfileSizes[k] |-> ProfileRow(k, str_YES)]])
                \o <<ProfileRow(12, str_NO), ProfileRow(12, str_NO)>>
  IN raw = [columns |-> ProfileHeader,
            rows |-> [i \in 1..Len(rows) |-> [rows[i] EXCEPT ![1] = i]]]

\* -------------------------------------------------------------- the run
\* The script has loaded the file into df (pd.read_excel: RangeIndex labels).
Init ==
  /\ (HeaderInput \/ CellInput \/ FlagInput \/ FilterInput \/ ProfileInput)
  /\ pc = "standardize"
  /\ columns = raw.columns
  /\ df = [i \in 1..Len(raw.rows) |-> [idx |-> i - 1, v |-> raw.rows[i]]]
  /\ antibiotic_cols = <<>>
  /\ error = <<>>
  /\ df_encoded = <<>>
  /\ df_long = <<>>
  /\ gender_filter = {}
  /\ sample_filter = {}
  /\ overview = <<>>
  /\ summary = {}
  /\ top_profiles = <<>>
  /\ esbl_summary = {}
  /\ mdr_drivers = {}
  /\ top_abx = <<>>
  /\ shown = {}

\* df.columns = df.columns.str.strip().str.upper().str.replace(...)
Standardize ==
  /\ pc = "standardize"
  /\ columns' = [i \in 1..Len(columns) |-> NormalizeName(columns[i])]
  /\ pc' = "validate_columns"
  /\ UNCHANGED <<raw, df, antibiotic_cols, error, df_encoded, df_long,
                 gender_filter, sample_filter, overview, summary, top_profiles,
                 esbl_summary, mdr_drivers, top_abx, shown>>

\* A slip: the comprehension leaves at the first absent column.
missing_first_only(cols) ==
  LET all == SelectSeq(required_cols, LAMBDA c : ~IsIn(c, cols))
  IN IF all = <<>> THEN <<>> ELSE <<all[1]>>

\* missing = [c for c in required_cols if c not in df.columns]
missing(cols) == SelectSeq(required_cols, LAMBDA c : ~IsIn(c, cols))

\* if missing: st.error(...); st.stop()
\* antibiotic_cols = [c for c in df.columns if c not in required_cols]
ValidateColumns ==
  /\ pc = "validate_columns"
  /\ IF missing(columns) # <<>>
       THEN /\ error' = Append(error, [kind |-> "missing_columns",
                                        cols |-> missing(columns)])
            /\ pc' = "stopped"
            /\ UNCHANGED antibiotic_cols
       ELSE /\ antibiotic_cols' =
                 SelectSeq(columns, LAMBDA c : ~IsIn(c, required_cols))
            /\ pc' = "validate_values"
            /\ UNCHANGED error
  /\ UNCHANGED <<raw, columns, df, df_encoded, df_long, gender_filter,
                 sample_filter, overview, summary, top_profiles, esbl_summary,
                 mdr_drivers, top_abx, shown>>

allowed_vals == {str_S, str_I, str_R}

\* bad = set(df[col].dropna().astype(str).str.upper()) - allowed_vals
bad(cols, rows, col) ==
  {AsUpperStr(c) : c \in Range(Column(cols, rows, col)) \ {NaN}} \ allowed_vals

\* A slip: only the first antibiotic column is examined.
FirstBad_first_column_only(cols, rows, abx) ==
  IF abx # <<>> /\ bad(cols, rows, abx[1]) # {} THEN 1 ELSE 0

\* The first column of the loop "for col in antibiotic_cols" whose bad set is
\* not empty: the loop stops the script there.
FirstBad(cols, rows, abx) ==
  LET hit == {i \in 1..Len(abx) : bad(cols, rows, abx[i]) # {}}
  IN IF hit = {} THEN 0 ELSE CHOOSE i \in hit : \A j \in hit : i <= j

ValidateValues ==
  /\ pc = "validate_values"
  /\ LET k == FirstBad(columns, df, antibiotic_cols)
     IN IF k # 0
          THEN /\ error' = Append(error,
                     [kind |-> "invalid_values", col |-> antibiotic_cols[k],
                      bad |-> bad(columns, df, antibiotic_cols[k])])
               /\ pc' = "stopped"
          ELSE /\ pc' = "encode"
               /\ UNCHANGED error
  /\ UNCHANGED <<raw, columns, df, antibiotic_cols, df_encoded, df_long,
                 gender_filter, sample_filter, overview, summary, top_profiles,
                 esbl_summary, mdr_drivers, top_abx, shown>>

\* ------------------------------------------------------ encode and melt
\* df[c] = df[c].astype(str).str.upper() for c in ESBL, MDR, GENDER
NormalizeMetadata(cols, rows) ==
  [i \in 1..Len(rows) |->
     [rows[i] EXCEPT
        !.v = [j \in 1..Len(cols) |->
                 IF cols[j] \in {str_ESBL, str_MDR, str_GENDER}
                   THEN AsUpperStr(rows[i].v[j])
                   ELSE rows[i].v[j]]]]

\* Series.map(sir_map) on one cell: a key the dictionary lacks, and a missing
\* cell, give a missing score.
sir_map(c) ==
  IF c = str_S THEN 0
  ELSE IF c = str_I THEN 5
  ELSE IF c = str_R THEN 10
  ELSE NaNScore

\* df_encoded = df.copy(); for col in antibiotic_cols: df_encoded[col] = ...map(sir_map)
EncodeTable(cols, rows, abx) ==
  [i \in 1..Len(rows) |->
     [rows[i] EXCEPT
        !.v = [j \in 1..Len(cols) |->
                 IF IsIn(cols[j], abx) THEN sir_map(rows[i].v[j])
                 ELSE rows[i].v[j]]]]

\* RESISTANCE_SCORE.map({0.0: "Sensitive", 0.5: "Intermediate", 1.0: "Resistant"})
LabelOf(score) ==
  IF score = 0 THEN "Sensitive"
  ELSE IF score = 5 THEN "Intermediate"
  ELSE IF score = 10 THEN "Resistant"
  ELSE NaNLabel

\* One row of the long table: the id_vars of a wide row, one antibiotic, its score.
LongRow(cols, row, a) ==
  [SNO |-> Cell(cols, row, str_SNO),
   SAMPLE_TYPE |-> Cell(cols, row, str_SAMPLE_TYPE),
   GENDER |-> Cell(cols, row, str_GENDER),
   ESBL |-> Cell(cols, row, str_ESBL),
   MDR |-> Cell(cols, row, str_MDR),
   MAR_INDEX |-> Cell(cols, row, str_MAR_INDEX),
   ANTIBIOTIC |-> a,
   RESISTANCE_SCORE |-> Cell(cols, row, a),
   RESISTANCE_LABEL |-> LabelOf(Cell(cols, row, a))]

\* DataFrame.melt(id_vars=required_cols, value_vars=antibiotic_cols) and the
\* label column: for each antibiotic in order, every row of the table in order.
Melt(cols, rows, abx) ==
  Concat([k \in 1..Len(abx) |->
            [i \in 1..Len(rows) |-> LongRow(cols, rows[i], abx[k])]])

Encode ==
  /\ pc = "encode"
  /\ df' = NormalizeMetadata(columns, df)
  /\ df_encoded' = EncodeTable(columns, df', antibiotic_cols)
  /\ pc' = "melt"
  /\ UNCHANGED <<raw, columns, antibiotic_cols, error, df_long, gender_filter,
                 sample_filter, overview, summary, top_profiles, esbl_summary,
                 mdr_drivers, top_abx, shown>>

MeltLong ==
  /\ pc = "melt"
  /\ df_long' = Melt(columns, df_encoded, antibiotic_cols)
  /\ pc' = "filter"
  /\ UNCHANGED <<raw, columns, df, antibiotic_cols, error, df_encoded,
                 gender_filter, sample_filter, overview, summary, top_profiles,
                 esbl_summary, mdr_drivers, top_abx, shown>>

\* ---------------------------------------------------------------- filter
\* df[df["GENDER"].isin(gender_filter) & df["SAMPLE_TYPE"].isin(sample_filter)]
FilterWide(cols, rows, gf, sf) ==
  SelectSeq(rows, LAMBDA r : /\ Cell(cols, r, str_GENDER) \in gf
                             /\ Cell(cols, r, str_SAMPLE_TYPE) \in sf)

\* df_encoded.loc[df.index]: the rows of enc with the labels of rows, in that order.
LocIndex(enc, rows) ==
  [i \in 1..Len(rows) |-> CHOOSE e \in Range(enc) : e.idx = rows[i].idx]

\* A slip: the long table is left unfiltered.
FilterLong_unfiltered(long, cols, rows) == long

\* A slip: df_long.loc[df.index], the long rows that carry the wide rows' labels.
FilterLong_by_label(long, cols, rows) ==
  Pick(long, {rows[i].idx + 1 : i \in 1..Len(rows)})

\* df_long[df_long["SNO"].isin(df["SNO"])]
FilterLong(long, cols, rows) ==
  SelectSeq(long, LAMBDA r : r.SNO \in Range(Column(cols, rows, str_SNO)))

\* The multiselects offer the observed values; the user picks any of them.
FilterStage ==
  /\ pc = "filter"
  /\ \E gf \in SUBSET Range(Column(columns, df, str_GENDER)),
        sf \in SUBSET Range(Column(columns, df, str_SAMPLE_TYPE)) :
       /\ gender_filter' = gf
       /\ sample_filter' = sf
       /\ df' = FilterWide(columns, df, gf, sf)
       /\ df_encoded' = LocIndex(df_encoded, df')
       /\ df_long' = FilterLong(df_long, columns, df')
  /\ pc' = "tabs"
  /\ UNCHANGED <<raw, columns, antibiotic_cols, error, overview, summary,
                 top_profiles, esbl_summary, mdr_drivers, top_abx, shown>>

\* ------------------------------------------------------------ aggregates
\* Tabs 1 and 9: the isolate count and the numerators of the MDR, ESBL and
\* high-risk percentages (each a mean over the rows of df).  MAR_INDEX is kept
\* in hundredths, so the threshold 0.2 is 20.
Overview(cols, rows) ==
  [total |-> Len(rows),
   mdr |-> Cardinality({i \in 1..Len(rows) : Cell(cols, rows[i], str_MDR) = str_YES}),
   esbl |-> Cardinality({i \in 1..Len(rows) : Cell(cols, rows[i], str_ESBL) = str_YES}),
   high_mar |-> Cardinality({i \in 1..Len(rows) : Cell(cols, rows[i], str_MAR_INDEX) > 20})]

\* Tab 2: df_long.groupby(["ANTIBIOTIC", "RESISTANCE_LABEL"]).size(), a group per
\* observed pair (groupby drops the rows whose key is missing), and PERCENT =
\* COUNT / (the sum of COUNT over the antibiotic's groups) * 100, kept as COUNT
\* and TOTAL.
Summary(long) ==
  LET Labelled == {i \in 1..Len(long) : long[i].RESISTANCE_LABEL # NaNLabel}
      Size(a, l) == Cardinality({i \in Labelled : /\ long[i].ANTIBIOTIC = a
                                                   /\ long[i].RESISTANCE_LABEL = l})
      Keys == {<<long[i].ANTIBIOTIC, long[i].RESISTANCE_LABEL>> : i \in Labelled}
      RECURSIVE Sum(_)
      Sum(K) == IF K = {} THEN 0
                ELSE LET k == CHOOSE x \in K : TRUE
                     IN Size(k[1], k[2]) + Sum(K \ {k})
  IN {[ANTIBIOTIC |-> k[1], RESISTANCE_LABEL |-> k[2], COUNT |-> Size(k[1], k[2]),
       TOTAL |-> Sum({x \in Keys : x[1] = k[1]})] : k \in Keys}

\* Tab 7: IS_RESISTANT = (RESISTANCE_SCORE == 1.0).astype(int), then
\* groupby(["ANTIBIOTIC", "ESBL"])["IS_RESISTANT"].mean(): the mean is
\* RESISTANT / N, the sum of the indicator over the size of the group.
EsblSummary(long) ==
  LET Keys == {<<long[i].ANTIBIOTIC, long[i].ESBL>> : i \in 1..Len(long)}
      Group(k) == {i \in 1..Len(long) : /\ long[i].ANTIBIOTIC = k[1]
                                         /\ long[i].ESBL = k[2]}
  IN {[ANTIBIOTIC |-> k[1], ESBL |-> k[2],
       RESISTANT |-> Cardinality({i \in Group(k) : long[i].RESISTANCE_SCORE = 10}),
       N |-> Cardinality(Group(k))] : k \in Keys}

\* Tab 8: the same mean over df_long[df_long["MDR"] == "YES"], by ANTIBIOTIC.
\* The order sort_values gives the rows is not kept.
MdrDrivers(long) ==
  LET Mdr == {i \in 1..Len(long) : long[i].MDR = str_YES}
      Group(a) == {i \in Mdr : long[i].ANTIBIOTIC = a}
  IN {[ANTIBIOTIC |-> a,
       RESISTANT |-> Cardinality({i \in Group(a) : long[i].RESISTANCE_SCORE = 10}),
       N |-> Cardinality(Group(a))] : a \in {long[i].ANTIBIOTIC : i \in Mdr}}

\* Tab 9: df_long[df_long["RESISTANCE_SCORE"] == 1.0].groupby("ANTIBIOTIC").size()
ResistantCounts(long) ==
  LET Res == {i \in 1..Len(long) : long[i].RESISTANCE_SCORE = 10}
  IN {[ANTIBIOTIC |-> a,
       COUNT |-> Cardinality({i \in Res : long[i].ANTIBIOTIC = a})] :
        a \in {long[i].ANTIBIOTIC : i \in Res}}

\* ",".join(names)
RECURSIVE JoinComma(_)
JoinComma(names) ==
  IF names = <<>> THEN <<>>
  ELSE IF Len(names) = 1 THEN names[1]
  ELSE names[1] \o <<44>> \o JoinComma(Tail(names))

\* def profile(row): ",".join([abx for abx in antibiotic_cols if row[abx] == 1.0])
profile(cols, row, abx) ==
  JoinComma(SelectSeq(abx, LAMBDA a : Cell(cols, row, a) = 10))

\* A slip: the profiles of every isolate are counted, MDR or not.
ProfileCounts_all_isolates(cols, rows, enc, abx) ==
  {[PROFILE |-> p,
    COUNT |-> Cardinality({i \in 1..Len(rows) : profile(cols, enc[i], abx) = p})] :
     p \in {profile(cols, enc[i], abx) : i \in 1..Len(rows)}}

\* df_profiles[df["MDR"] == "YES"].groupby("PROFILE").size().reset_index(name="COUNT")
ProfileCounts(cols, rows, enc, abx) ==
  LET Mdr == {i \in 1..Len(rows) : Cell(cols, rows[i], str_MDR) = str_YES}
  IN {[PROFILE |-> p,
       COUNT |-> Cardinality({i \in Mdr : profile(cols, enc[i], abx) = p})] :
        p \in {profile(cols, enc[i], abx) : i \in Mdr}}

\* Every arrangement of a set as a sequence.
RECURSIVE Perms(_)
Perms(S) ==
  IF S = {} THEN {<<>>}
  ELSE UNION {{<<x>> \o p : p \in Perms(S \ {x})} : x \in S}

\* sort_values("COUNT", ascending=False): the default kind is quicksort, which
\* is not stable, so rows of equal COUNT may come out in any order.
RECURSIVE SortByCountDesc(_)
SortByCountDesc(S) ==
  IF S = {} THEN {<<>>}
  ELSE LET top == {x \in S : \A y \in S : y.COUNT <= x.COUNT}
       IN {p \o q : p \in Perms(top), q \in SortByCountDesc(S \ top)}

\* DataFrame.head(n)
HeadRows(s, n) == SubSeq(s, 1, IF Len(s) < n THEN Len(s) ELSE n)

\* .head(10) of the profile table
TopProfilesLimit == 10

\* The results top_profiles can be.
TopProfiles(cols, rows, enc, abx) ==
  {HeadRows(s, TopProfilesLimit) :
     s \in SortByCountDesc(ProfileCounts(cols, rows, enc, abx))}

\* .head(3) of the resistant counts
TopAbxLimit == 3

\* The results top_abx can be: the index of
\* ....size().sort_values(ascending=False).head(3), as a list of names.
TopAbx(long) ==
  {[k \in 1..Len(HeadRows(s, TopAbxLimit)) |-> s[k].ANTIBIOTIC] :
     s \in SortByCountDesc(ResistantCounts(long))}

\* Tabs 1 to 10: every aggregate, from the filtered tables, and the downloads.
Tabs ==
  /\ pc = "tabs"
  /\ overview' = Overview(columns, df)
  /\ summary' = Summary(df_long)
  /\ top_profiles' \in TopProfiles(columns, df, df_encoded, antibiotic_cols)
  /\ esbl_summary' = EsblSummary(df_long)
  /\ mdr_drivers' = MdrDrivers(df_long)
  /\ top_abx' \in TopAbx(df_long)
  /\ shown' = {"overview", "summary", "mdr_pie", "mar_histogram", "corr",
               "top_profiles", "esbl_summary", "mdr_drivers", "summary_text",
               "downloads"}
  /\ pc' = "done"
  /\ UNCHANGED <<raw, columns, df, antibiotic_cols, error, df_encoded, df_long,
                 gender_filter, sample_filter>>

\* Tab 6 over a table of no rows: df_profiles.apply(profile, axis=1) has no row
\* to call profile on.  pandas then calls profile once on an empty Series, which
\* raises KeyError at row[abx] when there is an antibiotic column, and apply
\* returns a copy of the empty frame instead of a Series; assigning that frame to
\* the single column PROFILE raises ValueError in the pandas releases that
\* refuse it.  The script ends there, tabs 1 to 5 rendered.  Releases that accept
\* the assignment go on as in Tabs.
TabsRaise ==
  /\ pc = "tabs"
  /\ df = <<>>
  /\ antibiotic_cols # <<>>
  /\ overview' = Overview(columns, df)
  /\ summary' = Summary(df_long)
  /\ shown' = {"overview", "summary", "mdr_pie", "mar_histogram", "corr"}
  /\ pc' = "raised"
  /\ UNCHANGED <<raw, columns, df, antibiotic_cols, error, df_encoded, df_long,
                 gender_filter, sample_filter, top_profiles, esbl_summary,
                 mdr_drivers, top_abx>>

Next ==
  \/ Standardize
  \/ ValidateColumns
  \/ ValidateValues
  \/ Encode
  \/ MeltLong
  \/ FilterStage
  \/ Tabs
  \/ TabsRaise

Spec == Init /\ [][Next]_vars

\* ================================================================ claims
\* The stages after the filter stage has run.
Filtered == pc \in {"tabs", "done", "raised"}

\* The uploaded file passes validation: every required column is in its
\* normalized header and every non-missing cell of every other column is S, I
\* or R in some letter case.
InputValid ==
  LET names == [j \in 1..Len(raw.columns) |-> NormalizeName(raw.columns[j])]
  IN /\ \A c \in Range(required_cols) : \E j \in 1..Len(names) : names[j] = c
     /\ \A j \in 1..Len(names) :
          names[j] \notin Range(required_cols) =>
            \A i \in 1..Len(raw.rows) :
              raw.rows[i][j] # NaN =>
                Upper(raw.rows[i][j]) \in {str_S, str_I, str_R}

\* C1: a run whose input fails validation halts at the validator: it never
\* reaches the encode, reshape, filter or aggregate stage, no encoded or long
\* table and no aggregate exists, nothing is rendered or offered for download,
\* and once it has stopped an error message is on the page.
C1_InvalidRunHaltsAtValidator ==
  ~InputValid =>
    /\ pc \in {"standardize", "validate_columns", "validate_values", "stopped"}
    /\ df_encoded = <<>> /\ df_long = <<>>
    /\ overview = <<>> /\ summary = {} /\ top_profiles = <<>>
    /\ esbl_summary = {} /\ mdr_drivers = {} /\ top_abx = <<>>
    /\ shown = {}
    /\ (pc = "stopped" => error # <<>>)

\* C1 witness: a run stopped on an invalid value in the second antibiotic column
\* while the first antibiotic column is clean.
C1_Witness ==
  /\ pc = "stopped"
  /\ error[1].kind = "invalid_values"
  /\ Len(antibiotic_cols) = 2
  /\ error[1].col = antibiotic_cols[2]

\* The bad values of antibiotic column col, as the claims understand them: the
\* upper-cased non-missing values outside {S, I, R}.
BadValues(col) ==
  {Upper(c) : c \in Range(Column(columns, df, col)) \ {NaN}} \ {str_S, str_I, str_R}

\* C2: when the run stops on invalid values, every antibiotic column that holds a
\* value outside {S, I, R} is reported, with the full set of its bad values.
C2_EveryOffendingColumnReported ==
  (pc = "stopped" /\ error[1].kind = "invalid_values") =>
    \A col \in Range(antibiotic_cols) :
      BadValues(col) # {} =>
        \E k \in 1..Len(error) : /\ error[k].kind = "invalid_values"
                                 /\ error[k].col = col
                                 /\ error[k].bad = BadValues(col)

\* The required columns absent from the normalized header.
Absent == {c \in Range(required_cols) : \A i \in 1..Len(columns) : columns[i] # c}

\* C3: once the header has been validated, the missing-columns failure is raised
\* if and only if some required column is absent from the normalized header, and
\* it names exactly the absent columns, each once.
C3_MissingColumnsExact ==
  pc \notin {"standardize", "validate_columns"} =>
    /\ (Absent # {}) <=> (error # <<>> /\ error[1].kind = "missing_columns")
    /\ Absent # {} =>
         /\ pc = "stopped"
         /\ Range(error[1].cols) = Absent
         /\ Len(error[1].cols) = Cardinality(Absent)

\* C3 witness: a run stopped with several required columns absent and some present.
C3_Witness ==
  /\ pc = "stopped"
  /\ error[1].kind = "missing_columns"
  /\ Len(error[1].cols) >= 2
  /\ Len(error[1].cols) < Len(required_cols)

\* The score the specification gives a validated cell.
SpecScore(c) ==
  IF Upper(c) = str_S THEN 0 ELSE IF Upper(c) = str_I THEN 5 ELSE 10

\* C4: after encoding, every antibiotic cell that is not missing in the wide
\* table has the score of its upper-cased value (S 0.0, I 0.5, R 1.0), and a
\* cell is missing in the encoded table only if it is missing in the wide table.
C4_EncoderTotalOnValidated ==
  pc \in {"melt", "filter", "tabs", "done"} =>
    \A i \in 1..Len(df) : \A a \in Range(antibiotic_cols) :
      LET c == Cell(columns, df[i], a)
          e == Cell(columns, df_encoded[i], a)
      IN /\ (e = NaNScore) <=> (c = NaN)
         /\ c # NaN => e = SpecScore(c)

\* The SNO values a wide table references.
WideSNOs(rows) == Range(Column(columns, rows, str_SNO))

\* The SNO values the long table references.
LongSNOs == {df_long[i].SNO : i \in 1..Len(df_long)}

\* C5 as stated: after the filter stage the wide, encoded and long tables
\* reference the same set of SNO values, whatever the input and the selection.
C5_SameIsolatesAlways ==
  Filtered => /\ WideSNOs(df) = WideSNOs(df_encoded)
              /\ WideSNOs(df) = LongSNOs

\* C5 as amended: after the filter stage the wide, encoded and long tables
\* reference the same set of SNO values, provided the input has at least one
\* antibiotic column.
C5_SameIsolates ==
  (Filtered /\ antibiotic_cols # <<>>) =>
    /\ WideSNOs(df) = WideSNOs(df_encoded)
    /\ WideSNOs(df) = LongSNOs

\* C5 witness: a selection that drops some isolates and keeps others, over a
\* sheet with an antibiotic column.
C5_Witness ==
  /\ Filtered
  /\ antibiotic_cols # <<>>
  /\ df # <<>>
  /\ Len(df) < Len(raw.rows)
  /\ df_long # <<>>

\* C6: every row of the long table the aggregates read comes from an isolate
\* whose GENDER and SAMPLE_TYPE are both selected.
C6_NoUnfilteredLongRow ==
  Filtered =>
    \A i \in 1..Len(df_long) : /\ df_long[i].GENDER \in gender_filter
                               /\ df_long[i].SAMPLE_TYPE \in sample_filter

\* The long rows of antibiotic a, within the positions G, whose score is not missing.
NonMissing(a, G) ==
  Cardinality({i \in G : /\ df_long[i].ANTIBIOTIC = a
                         /\ df_long[i].RESISTANCE_SCORE # NaNScore})

\* C7: the denominator of every resistance-distribution percentage, of every
\* ESBL-stratified percentage and of every MDR-driver percentage is the number of
\* isolates of its group whose value for the antibiotic is not missing.
C7_MissingOutOfDenominators ==
  pc = "done" =>
    /\ \A g \in summary : g.TOTAL = NonMissing(g.ANTIBIOTIC, 1..Len(df_long))
    /\ \A g \in esbl_summary :
         g.N = NonMissing(g.ANTIBIOTIC, {i \in 1..Len(df_long) : df_long[i].ESBL = g.ESBL})
    /\ \A g \in mdr_drivers :
         g.N = NonMissing(g.ANTIBIOTIC, {i \in 1..Len(df_long) : df_long[i].MDR = str_YES})

\* C8: where the aggregates are computed, the long table has as many rows as the
\* filtered wide table has isolates times the number of antibiotic columns.
C8_LongRowCount ==
  Filtered => Len(df_long) = Len(df) * Len(antibiotic_cols)

\* The filtered isolates with MDR == YES, as positions of df.
MdrIsolates == {i \in 1..Len(df) : Cell(columns, df[i], str_MDR) = str_YES}

\* The profile string of the isolate at position i: the antibiotic names with
\* score 1.0, in antibiotic column order, joined by commas.
ProfileAt(i) ==
  JoinComma(Pick(antibiotic_cols,
                 {k \in 1..Len(antibiotic_cols) :
                    Cell(columns, df_encoded[i], antibiotic_cols[k]) = 10}))

\* top_profiles holds profiles of MDR isolates with their counts, none twice,
\* as many as there are up to 10, in the order Before, and no profile left out
\* comes before one that is in.  Before(n, m, i, j) orders a profile of n
\* occurrences first seen at isolate i against one of m occurrences first seen
\* at isolate j.
ProfileTableBy(Before(_, _, _, _)) ==
  LET prof == [i \in MdrIsolates |-> ProfileAt(i)]
      all == {prof[i] : i \in MdrIsolates}
      occ == [p \in all |-> Cardinality({i \in MdrIsolates : prof[i] = p})]
      first == [p \in all |->
                  CHOOSE i \in MdrIsolates :
                    prof[i] = p /\ \A j \in MdrIsolates : prof[j] = p => i <= j]
      n == Len(top_profiles)
      Bef(p, q) == Before(occ[p], occ[q], first[p], first[q])
  IN /\ n = IF Cardinality(all) < 10 THEN Cardinality(all) ELSE 10
     /\ \A k \in 1..n : /\ top_profiles[k].PROFILE \in all
                        /\ top_profiles[k].COUNT = occ[top_profiles[k].PROFILE]
     /\ \A k, l \in 1..n :
          k < l => /\ top_profiles[k].PROFILE # top_profiles[l].PROFILE
                   /\ Bef(top_profiles[k].PROFILE, top_profiles[l].PROFILE)
     /\ \A q \in all \ {top_profiles[k].PROFILE : k \in 1..n} :
          \A k \in 1..n : Bef(top_profiles[k].PROFILE, q)

\* C9 as stated: the profile table lists the profiles of the MDR isolates with
\* their counts, the 10 highest counts in descending order, equal counts in the
\* order of first appearance among the isolates.
C9_TiesByFirstAppearance ==
  pc = "done" =>
    ProfileTableBy(LAMBDA n, m, i, j : n > m \/ (n = m /\ i < j))

\* C9 as amended: the profile table lists the profiles of the MDR isolates with
\* their counts, the 10 highest counts in descending order; the order among
\* equal counts, and which of the profiles tied at the cut are kept, is not fixed.
C9_TopProfilesByCount ==
  pc = "done" => ProfileTableBy(LAMBDA n, m, i, j : n >= m)

\* C9 witness: more than 10 distinct MDR profiles, cut to 10, with a tie within
\* the table and an isolate that is not MDR.
C9_Witness ==
  /\ pc = "done"
  /\ Cardinality({ProfileAt(i) : i \in MdrIsolates}) > 10
  /\ Len(top_profiles) = 10
  /\ top_profiles[1].COUNT = top_profiles[2].COUNT
  /\ top_profiles[10].COUNT < top_profiles[1].COUNT
  /\ MdrIsolates # 1..Len(df)

\* The long table in the specified order of operations: the encoded table of
\* the whole file, filtered by the selection, then reshaped.
LongFilterFirst ==
  LET rows == [i \in 1..Len(raw.rows) |-> [idx |-> i - 1, v |-> raw.rows[i]]]
      enc == EncodeTable(columns, NormalizeMetadata(columns, rows), antibiotic_cols)
  IN Melt(columns, FilterWide(columns, enc, gender_filter, sample_filter),
          antibiotic_cols)

\* The uploaded file's SNO values are pairwise distinct (none is missing in any
\* enumerated sheet).
RawDistinctSNO ==
  \A i, j \in 1..Len(raw.rows) : i # j =>
    raw.rows[i][ColPos(columns, str_SNO)] # raw.rows[j][ColPos(columns, str_SNO)]

\* C10: when the SNO values of the input are distinct, the long table the code
\* builds (reshape, then keep the rows whose SNO is in the filtered wide table)
\* is, as a multiset of rows, the long table of the specified order (filter the
\* encoded table, then reshape).
C10_MeltThenFilterEqualsFilterThenMelt ==
  (Filtered /\ RawDistinctSNO) => SeqBag(df_long) = SeqBag(LongFilterFirst)

\* C10 witness: distinct SNO values, a selection that drops an isolate and keeps
\* another, over two antibiotic columns.
C10_Witness ==
  /\ Filtered
  /\ RawDistinctSNO
  /\ Len(antibiotic_cols) = 2
  /\ Len(df) >= 1
  /\ Len(df) < Len(raw.rows)
  /\ Len(df_long) = 2 * Len(df)

====
